---- MODULE Spec2Model ----
(***************************************************************************)
(* Model of formbar/config.py: Config (element lookup with reference       *)
(* chasing), Form (field registry and page list assembled from fields and  *)
(* snippets) and Field (attributes read from an entity element).           *)
(*                                                                         *)
(* The parsed XML tree is a sequence of elements in document order; each   *)
(* element records its nesting depth, so element 1 is the root and the     *)
(* descendants of an element are the run of deeper elements after it.      *)
(***************************************************************************)
EXTENDS Integers, Sequences, FiniteSets, TLC

VARIABLES tree, forms, ret

vars == <<tree, forms, ret>>

(* ---------------------------------------------------------------------- *)
(* Bounds                                                                  *)
(* ---------------------------------------------------------------------- *)

\* longest ref chain (number of hops) in the lookup documents
MaxChain == 3

\* number of items in the body of the varied form
MaxItems == 2

\* depth of the interpreter's call stack at which a call raises RuntimeError
RecursionLimit == 8

(* ---------------------------------------------------------------------- *)
(* Values                                                                  *)
(* ---------------------------------------------------------------------- *)

\* Python's None: the value of attrib.get() for an attribute that is absent
None == "<None>"

NoErr == ""
AmbiguousError == "KeyError: Element is ambigous"
FormNotFound == "KeyError: Form can not be found"
FieldNotFound == "KeyError: field not included in the form"
NotAnElement == "ValueError: Config must instanciated with a ElementTree.Element"
NoneHasNoCapitalize == "AttributeError: 'NoneType' object has no attribute 'capitalize'"
RecursionError == "RuntimeError: maximum recursion depth exceeded"

\* truth value of an attribute value in "if id:", "if ref:", "if sref:"
Truthy(v) == v # None /\ v # ""

\* an element: tag, nesting depth and the attributes the program reads
El(tag, depth, id, ref, name, readonly) ==
    [tag |-> tag, depth |-> depth, id |-> id, ref |-> ref,
     name |-> name, readonly |-> readonly]

\* the root element handed to Config.__init__
ConfigRoot == 1

(* ---------------------------------------------------------------------- *)
(* ElementTree.findall                                                     *)
(* ---------------------------------------------------------------------- *)

\* the descendants of root from element j on that match the path, in
\* document order; they end at the first element that is not deeper
\* than root
RECURSIVE Matches(_, _, _, _)
Matches(root, j, name, id) ==
    IF j > Len(tree) \/ tree[j].depth <= tree[root].depth
    THEN <<>>
    ELSE IF tree[j].tag = name /\ (Truthy(id) => tree[j].id = id)
    THEN <<j>> \o Matches(root, j + 1, name, id)
    ELSE Matches(root, j + 1, name, id)

\* root.findall(".//name") and root.findall(".//name[@id='id']"):
\* the matching descendants of root (root itself is never one of them)
findall(root, name, id) == Matches(root, root + 1, name, id)

(* ---------------------------------------------------------------------- *)
(* Config                                                                  *)
(* ---------------------------------------------------------------------- *)

\* Config.get_elements
get_elements(self, name) == findall(self, name, None)

RECURSIVE get_element(_, _, _, _)

\* a get_element that returns the element it finds without following ref
get_element_unchased(self, name, id, depth) ==
    LET result == findall(self, name, id) IN
    IF Len(result) > 1
    THEN [err |-> AmbiguousError, val |-> 0, calls |-> 1]
    ELSE IF Len(result) = 1
    THEN [err |-> NoErr, val |-> result[1], calls |-> 1]
    ELSE [err |-> NoErr, val |-> 0, calls |-> 1]

\* a get_element that takes the first of several matches
get_element_first(self, name, id, depth) ==
    IF depth > RecursionLimit
    THEN [err |-> RecursionError, val |-> 0, calls |-> 0]
    ELSE LET result == findall(self, name, id) IN
         IF Len(result) >= 1
         THEN LET ref == tree[result[1]].ref IN
              IF Truthy(ref)
              THEN LET r == get_element(self, name, ref, depth + 1)
                   IN  [r EXCEPT !.calls = @ + 1]
              ELSE [err |-> NoErr, val |-> result[1], calls |-> 1]
         ELSE [err |-> NoErr, val |-> 0, calls |-> 1]

\* a get_element that raises when nothing matches
get_element_raising(self, name, id, depth) ==
    IF depth > RecursionLimit
    THEN [err |-> RecursionError, val |-> 0, calls |-> 0]
    ELSE LET result == findall(self, name, id) IN
         IF Len(result) > 1
         THEN [err |-> AmbiguousError, val |-> 0, calls |-> 1]
         ELSE IF Len(result) = 1
         THEN LET ref == tree[result[1]].ref IN
              IF Truthy(ref)
              THEN LET r == get_element(self, name, ref, depth + 1)
                   IN  [r EXCEPT !.calls = @ + 1]
              ELSE [err |-> NoErr, val |-> result[1], calls |-> 1]
         ELSE [err |-> "KeyError: Element can not be found", val |-> 0,
               calls |-> 1]

\* Config.get_element(name, id) called at the given depth of the stack;
\* val = 0 stands for None, calls counts the lookups made
get_element(self, name, id, depth) ==
    IF depth > RecursionLimit
    THEN [err |-> RecursionError, val |-> 0, calls |-> 0]
    ELSE LET result == findall(self, name, id) IN
         IF Len(result) > 1
         THEN [err |-> AmbiguousError, val |-> 0, calls |-> 1]
         ELSE IF Len(result) = 1
         THEN LET ref == tree[result[1]].ref IN
              IF Truthy(ref)
              THEN LET r == get_element(self, name, ref, depth + 1)
                   IN  [r EXCEPT !.calls = @ + 1]
              ELSE [err |-> NoErr, val |-> result[1], calls |-> 1]
         ELSE [err |-> NoErr, val |-> 0, calls |-> 1]

(* ---------------------------------------------------------------------- *)
(* Field                                                                   *)
(* ---------------------------------------------------------------------- *)

\* Field.__init__(entity): entity = 0 is None, which Config.__init__
\* rejects; a missing name fails in self.name.capitalize()
Field(entity) ==
    IF entity = 0
    THEN [err |-> NotAnElement, val |-> None]
    ELSE IF tree[entity].name = None
    THEN [err |-> NoneHasNoCapitalize, val |-> None]
    ELSE [err |-> NoErr,
          val |-> [entity   |-> entity,
                   id       |-> tree[entity].id,
                   name     |-> tree[entity].name,
                   readonly |-> (IF tree[entity].readonly = None
                                 THEN "false"
                                 ELSE tree[entity].readonly) = "true"]]

(* ---------------------------------------------------------------------- *)
(* Form                                                                    *)
(* ---------------------------------------------------------------------- *)

\* the empty dict
EmptyDict == [k \in {} |-> None]

\* result of a walk: the error raised (if any), the value returned, the
\* writes to self._id2name, and what the walk did on the way (lookups on
\* the parent Config, lookups that returned None, findall scans)
Walk(err, val, id2name, lookups, misses, walks) ==
    [err |-> err, val |-> val, id2name |-> id2name,
     lookups |-> lookups, misses |-> misses, walks |-> walks]

Missed(e) == IF e.err = NoErr /\ e.val = 0 THEN 1 ELSE 0

RECURSIVE get_pages(_, _, _)
RECURSIVE PagesSnippets(_, _, _, _, _)

\* the loop over the snippets adding only the pages not yet in the list
PagesSnippets_dedup(self, ss, i, acc, depth) ==
    IF i > Len(ss) \/ acc.err # NoErr
    THEN acc
    ELSE LET sref == tree[ss[i]].ref IN
         IF ~Truthy(sref)
         THEN PagesSnippets(self, ss, i + 1, acc, depth)
         ELSE LET s == get_element(ConfigRoot, "snippet", sref, depth + 1)
                  acc1 == [acc EXCEPT !.lookups = @ + s.calls,
                                      !.misses = @ + Missed(s)]
              IN  IF s.err # NoErr
                  THEN [acc1 EXCEPT !.err = s.err]
                  ELSE LET sub == get_pages(self, s.val, depth + 1) IN
                       PagesSnippets(self, ss, i + 1,
                           [acc1 EXCEPT
                               !.err = sub.err,
                               !.val = @ \o SelectSeq(sub.val,
                                           LAMBDA p : \A k \in 1..Len(@) :
                                                         @[k] # p),
                               !.lookups = @ + sub.lookups,
                               !.misses = @ + sub.misses,
                               !.walks = @ + sub.walks],
                           depth)

\* Form.get_pages, the loop "for s in root.findall('.//snippet')"
PagesSnippets(self, ss, i, acc, depth) ==
    IF i > Len(ss) \/ acc.err # NoErr
    THEN acc
    ELSE LET sref == tree[ss[i]].ref IN
         IF ~Truthy(sref)
         THEN PagesSnippets(self, ss, i + 1, acc, depth)
         ELSE LET s == get_element(ConfigRoot, "snippet", sref, depth + 1)
                  acc1 == [acc EXCEPT !.lookups = @ + s.calls,
                                      !.misses = @ + Missed(s)]
              IN  IF s.err # NoErr
                  THEN [acc1 EXCEPT !.err = s.err]
                  ELSE LET sub == get_pages(self, s.val, depth + 1) IN
                       PagesSnippets(self, ss, i + 1,
                           [acc1 EXCEPT !.err = sub.err,
                                        !.val = @ \o sub.val,
                                        !.lookups = @ + sub.lookups,
                                        !.misses = @ + sub.misses,
                                        !.walks = @ + sub.walks],
                           depth)

\* Form.get_pages(root); root = 0 is None
get_pages(self, root, depth) ==
    IF depth > RecursionLimit
    THEN Walk(RecursionError, <<>>, EmptyDict, 0, 0, 0)
    ELSE LET r == IF root = 0 THEN self.tree ELSE root
             pages == findall(r, "page", None)
         IN  PagesSnippets(self, findall(r, "snippet", None), 1,
                           Walk(NoErr, pages, EmptyDict, 0, 0, 2), depth)

RECURSIVE get_fields(_, _, _)
RECURSIVE FieldsFields(_, _, _, _, _)
RECURSIVE FieldsSnippets(_, _, _, _, _)

\* the loop over the fields without "if self.readonly: field.readonly = ..."
FieldsFields_uncascaded(self, fs, i, acc, depth) ==
    IF i > Len(fs) \/ acc.err # NoErr
    THEN acc
    ELSE LET ref == tree[fs[i]].ref
             entity == get_element(ConfigRoot, "entity", ref, depth + 1)
             acc1 == [acc EXCEPT !.lookups = @ + entity.calls,
                                 !.misses = @ + Missed(entity)]
         IN  IF entity.err # NoErr
             THEN [acc1 EXCEPT !.err = entity.err]
             ELSE LET f == Field(entity.val) IN
                  IF f.err # NoErr
                  THEN [acc1 EXCEPT !.err = f.err]
                  ELSE FieldsFields(self, fs, i + 1,
                           [acc1 EXCEPT
                               !.val = (f.val.name :> f.val) @@ @,
                               !.id2name = (ref :> f.val.name) @@ @],
                           depth)

\* Form.get_fields, the loop "for f in root.findall('.//field')"
FieldsFields(self, fs, i, acc, depth) ==
    IF i > Len(fs) \/ acc.err # NoErr
    THEN acc
    ELSE LET ref == tree[fs[i]].ref
             entity == get_element(ConfigRoot, "entity", ref, depth + 1)
             acc1 == [acc EXCEPT !.lookups = @ + entity.calls,
                                 !.misses = @ + Missed(entity)]
         IN  IF entity.err # NoErr
             THEN [acc1 EXCEPT !.err = entity.err]
             ELSE LET f == Field(entity.val) IN
                  IF f.err # NoErr
                  THEN [acc1 EXCEPT !.err = f.err]
                  ELSE LET field == IF self.readonly
                                    THEN [f.val EXCEPT !.readonly = self.readonly]
                                    ELSE f.val
                       IN  FieldsFields(self, fs, i + 1,
                               [acc1 EXCEPT
                                   !.val = (field.name :> field) @@ @,
                                   !.id2name = (ref :> field.name) @@ @],
                               depth)

\* the loop over the snippets keeping the fields already in the dict
FieldsSnippets_keeping(self, ss, i, acc, depth) ==
    IF i > Len(ss) \/ acc.err # NoErr
    THEN acc
    ELSE LET sref == tree[ss[i]].ref IN
         IF ~Truthy(sref)
         THEN FieldsSnippets(self, ss, i + 1, acc, depth)
         ELSE LET s == get_element(ConfigRoot, "snippet", sref, depth + 1)
                  acc1 == [acc EXCEPT !.lookups = @ + s.calls,
                                      !.misses = @ + Missed(s)]
              IN  IF s.err # NoErr
                  THEN [acc1 EXCEPT !.err = s.err]
                  ELSE LET sub == get_fields(self, s.val, depth + 1) IN
                       FieldsSnippets(self, ss, i + 1,
                           [acc1 EXCEPT !.err = sub.err,
                                        !.val = @ @@ sub.val,
                                        !.id2name = sub.id2name @@ @,
                                        !.lookups = @ + sub.lookups,
                                        !.misses = @ + sub.misses,
                                        !.walks = @ + sub.walks],
                           depth)

\* Form.get_fields, the loop "for s in root.findall('.//snippet')"
FieldsSnippets(self, ss, i, acc, depth) ==
    IF i > Len(ss) \/ acc.err # NoErr
    THEN acc
    ELSE LET sref == tree[ss[i]].ref IN
         IF ~Truthy(sref)
         THEN FieldsSnippets(self, ss, i + 1, acc, depth)
         ELSE LET s == get_element(ConfigRoot, "snippet", sref, depth + 1)
                  acc1 == [acc EXCEPT !.lookups = @ + s.calls,
                                      !.misses = @ + Missed(s)]
              IN  IF s.err # NoErr
                  THEN [acc1 EXCEPT !.err = s.err]
                  ELSE LET sub == get_fields(self, s.val, depth + 1) IN
                       FieldsSnippets(self, ss, i + 1,
                           [acc1 EXCEPT !.err = sub.err,
                                        !.val = sub.val @@ @,
                                        !.id2name = sub.id2name @@ @,
                                        !.lookups = @ + sub.lookups,
                                        !.misses = @ + sub.misses,
                                        !.walks = @ + sub.walks],
                           depth)

\* a get_fields that walks the tree on every call
get_fields_recomputing(self, root, depth) ==
    IF depth > RecursionLimit
    THEN Walk(RecursionError, EmptyDict, EmptyDict, 0, 0, 0)
    ELSE LET r == IF root = 0 THEN self.tree ELSE root
             direct == FieldsFields(self, findall(r, "field", None), 1,
                           Walk(NoErr, EmptyDict, EmptyDict, 0, 0, 1), depth)
         IN  IF direct.err # NoErr
             THEN direct
             ELSE FieldsSnippets(self, findall(r, "snippet", None), 1,
                                 [direct EXCEPT !.walks = @ + 1], depth)

\* Form.get_fields(root); root = 0 is None
get_fields(self, root, depth) ==
    IF depth > RecursionLimit
    THEN Walk(RecursionError, EmptyDict, EmptyDict, 0, 0, 0)
    ELSE IF self.initialized
    THEN Walk(NoErr, self.fields, EmptyDict, 0, 0, 0)
    ELSE LET r == IF root = 0 THEN self.tree ELSE root
             direct == FieldsFields(self, findall(r, "field", None), 1,
                           Walk(NoErr, EmptyDict, EmptyDict, 0, 0, 1), depth)
         IN  IF direct.err # NoErr
             THEN direct
             ELSE FieldsSnippets(self, findall(r, "snippet", None), 1,
                                 [direct EXCEPT !.walks = @ + 1], depth)

\* Form.__init__(tree, parent): the instance before and after
\* "self._fields = self.get_fields(); self._initialized = True"
Form(element, depth) ==
    LET attr == tree[element]
        self == [tree        |-> element,
                 id          |-> IF attr.id = None THEN "" ELSE attr.id,
                 readonly    |-> (IF attr.readonly = None
                                  THEN "false" ELSE attr.readonly) = "true",
                 initialized |-> FALSE,
                 fields      |-> EmptyDict,
                 id2name     |-> EmptyDict]
        fields == get_fields(self, 0, depth + 1)
    IN  [fields EXCEPT
            !.val = IF fields.err # NoErr
                    THEN None
                    ELSE [self EXCEPT !.initialized = TRUE,
                                      !.fields = fields.val,
                                      !.id2name = fields.id2name]]

\* Config.get_form(id)
get_form(self, id, depth) ==
    LET element == get_element(self, "form", id, depth + 1) IN
    IF element.err # NoErr
    THEN Walk(element.err, None, EmptyDict, element.calls, 0, 0)
    ELSE IF element.val = 0
    THEN Walk(FormNotFound, None, EmptyDict, element.calls, 1, 0)
    ELSE LET f == Form(element.val, depth + 1) IN
         [f EXCEPT !.lookups = @ + element.calls]

\* Form.get_field(name)
get_field(self, name, depth) ==
    LET fields == get_fields(self, 0, depth + 1) IN
    IF fields.err # NoErr
    THEN fields
    ELSE IF name \in DOMAIN fields.val
    THEN [fields EXCEPT !.val = fields.val[name]]
    ELSE [fields EXCEPT !.err = FieldNotFound, !.val = None]

(* ---------------------------------------------------------------------- *)
(* Documents                                                               *)
(* ---------------------------------------------------------------------- *)

Root == El("configuration", 0, None, None, None, None)

Entity(id, ref, name, readonly) == El("entity", 1, id, ref, name, readonly)
SnippetDef(id, ref) == El("snippet", 1, id, ref, None, None)
FormDef(id, ref, readonly) == El("form", 1, id, ref, None, readonly)
FieldRef(depth, ref) == El("field", depth, None, ref, None, None)
Page(depth, id) == El("page", depth, id, None, None, None)
Include(depth, ref) == El("snippet", depth, None, ref, None, None)

\* identifiers of the elements of a ref chain, and one no element has
IdPool == <<"a", "b", "c", "d", "e", "f">>
Absent == "zz"

\* a chain of L hops: L + 1 elements of one tag, each but the last naming
\* the next in its ref; the last one's ref is end
Chain(tag, L, end, nested) ==
    [j \in 1..(L + 1) |->
        El(tag, IF nested THEN j ELSE 1, IdPool[j],
           IF j <= L THEN IdPool[j + 1] ELSE end,
           IF tag = "entity" THEN "a" ELSE None, None)]

ChainTags == {"entity", "form"}
OtherTag(tag) == IF tag = "entity" THEN "form" ELSE "entity"

\* no further element, a second element carrying an id of the chain (with
\* the chain's tag or another one), or an element of the chain's tag
\* without an id
Extras(tag, L) ==
    {<<>>, <<El(tag, 1, None, None, None, None)>>}
    \cup {<<El(t, 1, IdPool[h], None, "b", None)>> :
             t \in {tag, OtherTag(tag)}, h \in 1..(L + 1)}

LookupDocs ==
    UNION {UNION {{<<Root>> \o Chain(tag, L, end, nested) \o extra :
                       end \in {None, "", Absent}
                               \cup {IdPool[k] : k \in 1..(L + 1)},
                       extra \in Extras(tag, L)} :
                  L \in 0..MaxChain, nested \in BOOLEAN} :
           tag \in ChainTags}

\* the entity definitions of the form documents
Pool ==
    <<Entity("e1", None, "a", None),
      Entity("e2", None, "b", "true"),
      Entity("e3", None, "a", "false"),
      Entity("e4", "e2", None, None)>>

\* snippet libraries: nested inclusion, mutual inclusion, a snippet that is
\* a reference to another one, and a duplicated snippet id
LibNested ==
    <<SnippetDef("s1", None), FieldRef(2, "e3"), Page(2, "p1"),
                              Include(2, "s2"),
      SnippetDef("s2", None), Page(2, "p2"), FieldRef(3, "e2")>>
LibCycle ==
    <<SnippetDef("s1", None), Include(2, "s2"),
      SnippetDef("s2", None), Page(2, "p2"), Include(2, "s1")>>
LibAlias ==
    <<SnippetDef("s1", "s2"),
      SnippetDef("s2", None), FieldRef(2, "e1"), Page(2, "p2")>>
LibDup ==
    <<SnippetDef("s1", None), Page(2, "p1"),
      SnippetDef("s1", None), FieldRef(2, "e3")>>
OtherLibs == {LibCycle, LibAlias, LibDup}

\* what the body of a form is made of
Items ==
    {<<FieldRef(2, r)>> : r \in {"e1", "e3", "e4", "ex"}}
    \cup {<<Include(2, r)>> : r \in {"s1", "sx"}}

RECURSIVE Bodies(_)
Bodies(n) ==
    IF n = 0 THEN {<<>>}
    ELSE {i \o b : i \in Items, b \in Bodies(n - 1)}

FormDocs ==
    {<<Root>> \o Pool \o LibNested \o <<FormDef("f1", None, ro)>> \o body :
        ro \in {None, "true"},
        body \in UNION {Bodies(n) : n \in 1..MaxItems}}
    \cup
    {<<Root>> \o Pool \o lib \o <<FormDef("f1", None, ro)>> \o body :
        lib \in OtherLibs, ro \in {None, "true"}, body \in Bodies(1)}

\* a snippet no form includes, with an include that names no snippet
LibUnused ==
    <<SnippetDef("s3", None), Page(2, "p5"), Include(2, "sx")>>

\* two forms over the same entities, and a form that is a reference
TwoFormDocs ==
    {<<Root>> \o Pool \o LibNested \o LibUnused
        \o <<FormDef("f1", None, ro1), FieldRef(2, "e1"), Page(2, "p0"),
                                       Include(2, "s1"), Include(2, "s2"),
             FormDef("f2", None, ro2), FieldRef(2, "e3"),
                                       Page(2, "p3"), FieldRef(3, "e2"),
                                       Include(2, ""), Page(3, "p4"),
             FormDef("f3", "f1", None)>> :
        ro1 \in {None, "true", "false"}, ro2 \in {None, "true", "false"}}

Docs == LookupDocs \cup FormDocs \cup TwoFormDocs

(* ---------------------------------------------------------------------- *)
(* Operations                                                              *)
(* ---------------------------------------------------------------------- *)

Tags == {tree[j].tag : j \in 1..Len(tree)}

\* identifiers worth looking up under a tag: the ids and refs it occurs
\* with, the refs of the field elements, no identifier, and an absent one
IdsFor(name) ==
    {tree[j].id : j \in {k \in 1..Len(tree) : tree[k].tag = name}}
    \cup {tree[j].ref : j \in {k \in 1..Len(tree) : tree[k].tag = name}}
    \cup {None, "", Absent}

\* elements handed to get_pages and get_fields as root (0 is None): the
\* whole document and the snippet definitions
Roots ==
    {0, ConfigRoot}
    \cup {j \in 1..Len(tree) : tree[j].tag = "snippet" /\ Truthy(tree[j].id)}

Names == {"a", "b", "c"}

Call(op, self, name, id, r) ==
    [op |-> op, self |-> self, name |-> name, id |-> id,
     err |-> r.err, val |-> r.val,
     lookups |-> r.lookups, misses |-> r.misses, walks |-> r.walks]

Init ==
    /\ tree \in Docs
    /\ forms = {}
    /\ ret = Call("init", 0, None, None, Walk(NoErr, None, EmptyDict, 0, 0, 0))

GetElements(name) ==
    /\ ret' = Call("get_elements", 0, name, None,
                   Walk(NoErr, get_elements(ConfigRoot, name), EmptyDict, 0, 0, 1))
    /\ UNCHANGED <<tree, forms>>

GetElement(name, id) ==
    /\ LET r == get_element(ConfigRoot, name, id, 1) IN
       ret' = Call("get_element", 0, name, id,
                   Walk(r.err, r.val, EmptyDict, r.calls, Missed(r), r.calls))
    /\ UNCHANGED <<tree, forms>>

\* the Form g if its Fields were the objects the Form new holds for the
\* same entities
Sharing(g, new) ==
    [g EXCEPT !.fields =
        [n \in DOMAIN g.fields |->
            IF new.readonly
               /\ \E m \in DOMAIN new.fields :
                     new.fields[m].entity = g.fields[n].entity
            THEN [g.fields[n] EXCEPT !.readonly = TRUE]
            ELSE g.fields[n]]]

\* a get_form that keeps one Field per entity for all Forms
GetForm_sharing(id) ==
    /\ LET r == get_form(ConfigRoot, id, 1) IN
       /\ ret' = Call("get_form", 0, "form", id, r)
       /\ forms' = IF r.err = NoErr
                   THEN {Sharing(g, r.val) : g \in forms} \cup {r.val}
                   ELSE forms
    /\ UNCHANGED tree

GetForm(id) ==
    /\ LET r == get_form(ConfigRoot, id, 1) IN
       /\ ret' = Call("get_form", 0, "form", id, r)
       /\ forms' = IF r.err = NoErr THEN forms \cup {r.val} ELSE forms
    /\ UNCHANGED tree

GetFields(f, root) ==
    /\ ret' = Call("get_fields", f, None, root, get_fields(f, root, 1))
    /\ UNCHANGED <<tree, forms>>

GetPages(f, root) ==
    /\ ret' = Call("get_pages", f, None, root, get_pages(f, root, 1))
    /\ UNCHANGED <<tree, forms>>

GetField(f, name) ==
    /\ ret' = Call("get_field", f, name, None, get_field(f, name, 1))
    /\ UNCHANGED <<tree, forms>>

Next ==
    \/ \E name \in Tags : GetElements(name)
    \/ \E name \in {"entity", "snippet", "form"} :
          \E id \in IdsFor(name) : GetElement(name, id)
    \/ \E id \in IdsFor("form") : GetForm(id)
    \/ \E f \in forms : \E root \in Roots : GetFields(f, root)
    \/ \E f \in forms : \E root \in Roots : GetPages(f, root)
    \/ \E f \in forms : \E name \in Names : GetField(f, name)

Spec == Init /\ [][Next]_vars

(* ---------------------------------------------------------------------- *)
(* What the lookups are expected to find, stated over the document         *)
(* ---------------------------------------------------------------------- *)

\* the elements below the root of the configuration that a lookup of
\* (name, id) is about: those of the tag, with the id unless it is empty
Matching(name, id) ==
    {j \in 2..Len(tree) :
        tree[j].tag = name /\ (Truthy(id) => tree[j].id = id)}

\* where the chain starting at (name, id) ends: an element without ref,
\* 0 if some identifier on the way matches nothing, -1 if one matches
\* several elements, -2 if the chain never ends
RECURSIVE Target(_, _, _)
Target(name, id, fuel) ==
    LET m == Matching(name, id) IN
    IF Cardinality(m) > 1 THEN -1
    ELSE IF m = {} THEN 0
    ELSE LET j == CHOOSE x \in m : TRUE IN
         IF ~Truthy(tree[j].ref) THEN j
         ELSE IF fuel = 0 THEN -2
         ELSE Target(name, tree[j].ref, fuel - 1)

Resolve(name, id) == Target(name, id, Len(tree))

\* number of refs followed from (name, id) along uniquely matching
\* elements; -1 if they never end
RECURSIVE HopsFrom(_, _, _)
HopsFrom(name, id, fuel) ==
    LET m == Matching(name, id) IN
    IF Cardinality(m) # 1 THEN 0
    ELSE LET j == CHOOSE x \in m : TRUE IN
         IF ~Truthy(tree[j].ref) THEN 0
         ELSE IF fuel = 0 THEN -1
         ELSE LET h == HopsFrom(name, tree[j].ref, fuel - 1) IN
              IF h < 0 THEN -1 ELSE h + 1

Hops(name, id) == HopsFrom(name, id, Len(tree))

\* the ref of the only element matching (name, id)
RefOf(name, id) == tree[CHOOSE x \in Matching(name, id) : TRUE].ref

\* the elements below root
Under(root) ==
    {j \in (root + 1)..Len(tree) :
        \A k \in (root + 1)..j : tree[k].depth > tree[root].depth}

\* a set of elements in document order
RECURSIVE Ordered(_)
Ordered(S) ==
    IF S = {} THEN <<>>
    ELSE LET m == CHOOSE x \in S : \A y \in S : x <= y
         IN  <<m>> \o Ordered(S \ {m})

FieldsUnder(root) == {j \in Under(root) : tree[j].tag = "field"}
PagesUnder(root) == {j \in Under(root) : tree[j].tag = "page"}
IncludesUnder(root) ==
    {j \in Under(root) : tree[j].tag = "snippet" /\ Truthy(tree[j].ref)}

\* what the includes below root resolve to
SnippetTargets(root) ==
    {Resolve("snippet", tree[j].ref) : j \in IncludesUnder(root)}

\* the elements walked when root is expanded: root and, transitively, the
\* snippets its includes resolve to
RECURSIVE Closure(_, _)
Closure(S, fuel) ==
    LET T == S \cup {x \in UNION {SnippetTargets(r) : r \in S} : x > 0} IN
    IF T = S \/ fuel = 0 THEN S ELSE Closure(T, fuel - 1)

Expanded(root) == Closure({root}, Len(tree))

\* an include reachable from root names no snippet
MissingSnippet(root) == \E r \in Expanded(root) : 0 \in SnippetTargets(r)

\* a field reachable from root names no entity
MissingEntity(root) ==
    \E r \in Expanded(root) : \E j \in FieldsUnder(r) :
        Truthy(tree[j].ref) /\ Resolve("entity", tree[j].ref) = 0

\* a snippet reachable from root includes itself, directly or not
IncludeCycle(root) ==
    \E r \in Expanded(root) :
        r \in Closure({x \in SnippetTargets(r) : x > 0}, Len(tree))

\* every lookup made when root is expanded finds its element, and the
\* expansion ends
Sound(root) ==
    /\ ~IncludeCycle(root)
    /\ \A r \in Expanded(root) : \A t \in SnippetTargets(r) : t > 0

(* ---------------------------------------------------------------------- *)
(* Properties of Config                                                    *)
(* ---------------------------------------------------------------------- *)

\* C1: when get_element(T, I) was called and exactly one element has tag
\* T and id I, with a non-empty ref R that starts a chain of 1..MaxChain
\* hops, the call gave what get_element(T, R) gives, it ended without
\* exhausting the stack, and the element returned has no non-empty ref
C1_RefChase ==
    (/\ ret.op = "get_element"
     /\ Cardinality(Matching(ret.name, ret.id)) = 1
     /\ Truthy(RefOf(ret.name, ret.id))
     /\ Hops(ret.name, ret.id) \in 1..MaxChain)
    => LET direct == get_element(ConfigRoot, ret.name,
                                 RefOf(ret.name, ret.id), 1)
       IN  /\ ret.err = direct.err
           /\ ret.val = direct.val
           /\ ret.err # RecursionError
           /\ (ret.val # 0 => ~Truthy(tree[ret.val].ref))

\* a chain of three hops was followed to the definition at its end
C1_Witness ==
    /\ ret.op = "get_element"
    /\ Hops(ret.name, ret.id) = 3
    /\ ret.err = NoErr
    /\ ret.val # 0
    /\ tree[ret.val].id = IdPool[4]

\* C2: when get_element was called and the identifier looked up, or one
\* reached by following refs from it, matches more than one element, the
\* call failed with the ambiguity error and returned no element
C2_AmbiguityFatal ==
    (ret.op = "get_element" /\ Resolve(ret.name, ret.id) = -1)
    => (ret.err = AmbiguousError /\ ret.val = 0)

\* the ambiguity was met after at least one hop
C2_Witness ==
    /\ ret.op = "get_element"
    /\ Hops(ret.name, ret.id) >= 1
    /\ Resolve(ret.name, ret.id) = -1
    /\ ret.err = AmbiguousError

\* C3: when get_element was called and nothing matches, the call returned
\* None without an error; when get_form was called with an identifier
\* that resolves to no form element, it raised the not-found error and
\* returned no Form
C3_AbsentLookup ==
    /\ (ret.op = "get_element" /\ Resolve(ret.name, ret.id) = 0)
       => (ret.err = NoErr /\ ret.val = 0)
    /\ (ret.op = "get_form" /\ Resolve("form", ret.id) = 0)
       => (ret.err = FormNotFound /\ ret.val = None)

\* get_form was called for an identifier that no form element carries, in
\* a document where get_element returns None for it
C3_Witness ==
    /\ ret.op = "get_form"
    /\ Matching("form", ret.id) = {}
    /\ get_element(ConfigRoot, "form", ret.id, 1).val = 0
    /\ get_element(ConfigRoot, "form", ret.id, 1).err = NoErr
    /\ ret.err = FormNotFound

(* ---------------------------------------------------------------------- *)
(* Properties of Form                                                      *)
(* ---------------------------------------------------------------------- *)

RECURSIVE Encounter(_, _)
RECURSIVE EncounterIn(_, _, _)

\* the entities of the fields met when the includes incs[i..] are expanded
EncounterIn(incs, i, fuel) ==
    IF i > Len(incs) THEN <<>>
    ELSE Encounter(Resolve("snippet", tree[incs[i]].ref), fuel)
         \o EncounterIn(incs, i + 1, fuel)

\* the entities of the fields met when root is expanded, in the order
\* they are met: the fields below root in document order, then those of
\* each included snippet
Encounter(root, fuel) ==
    IF fuel = 0 \/ root <= 0 THEN <<>>
    ELSE LET fs == Ordered(FieldsUnder(root)) IN
         [i \in 1..Len(fs) |-> Resolve("entity", tree[fs[i]].ref)]
         \o EncounterIn(Ordered(IncludesUnder(root)), 1, fuel - 1)

\* every field reachable from root names one entity, which has a name, and
\* every include names one snippet
Assemblable(root) ==
    /\ Sound(root)
    /\ \A r \in Expanded(root) : \A j \in FieldsUnder(r) :
          LET e == Resolve("entity", tree[j].ref) IN
          e > 0 /\ tree[e].name # None

\* C4: the registry of every Form built has exactly the names of the
\* entities of the reachable fields as keys, and under each name the Field
\* of the entity met last under that name; get_form raises nothing when
\* names collide
C4_Registry ==
    /\ \A f \in forms :
          LET enc == Encounter(f.tree, Len(tree)) IN
          /\ DOMAIN f.fields = {tree[enc[i]].name : i \in 1..Len(enc)}
          /\ \A n \in DOMAIN f.fields :
                LET last == CHOOSE i \in 1..Len(enc) :
                               /\ tree[enc[i]].name = n
                               /\ \A k \in (i + 1)..Len(enc) :
                                     tree[enc[k]].name # n
                IN  /\ f.fields[n].entity = enc[last]
                    /\ f.fields[n].name = n
    /\ (/\ ret.op = "get_form"
        /\ Resolve("form", ret.id) > 0
        /\ Assemblable(Resolve("form", ret.id)))
       => (ret.err = NoErr /\ ret.val \in forms)

\* a Form was built in which a field directly under the form element and a
\* field of an included snippet have the same name, and the registry
\* holds the snippet's
C4_Witness ==
    \E f \in forms : \E j \in FieldsUnder(f.tree) :
        LET e == Resolve("entity", tree[j].ref) IN
        /\ e > 0
        /\ tree[e].name \in DOMAIN f.fields
        /\ f.fields[tree[e].name].entity # e
        /\ \A k \in FieldsUnder(f.tree) :
              Resolve("entity", tree[k].ref) # f.fields[tree[e].name].entity
        /\ Cardinality(DOMAIN f.fields) = 2

\* C5: in every Form built the readonly flag is the one of the form
\* element; if it is set every Field is readonly, if not every Field's
\* readonly is the one of its entity
C5_ReadonlyCascade ==
    \A f \in forms :
        /\ f.readonly = (tree[f.tree].readonly = "true")
        /\ \A n \in DOMAIN f.fields :
              f.fields[n].readonly =
                 (f.readonly \/ tree[f.fields[n].entity].readonly = "true")

\* a readonly Form holds a Field, reached through a snippet, whose entity
\* says readonly="false"
C5_Witness ==
    \E f \in forms : \E n \in DOMAIN f.fields :
        /\ f.readonly
        /\ tree[f.fields[n].entity].readonly = "false"
        /\ f.fields[n].readonly
        /\ \A k \in FieldsUnder(f.tree) :
              Resolve("entity", tree[k].ref) # f.fields[n].entity

\* C6: every Form built is initialized; get_form walked the tree to build
\* it; get_fields (with any root) and get_field on it return the registry
\* kept in the Form, without a lookup on the Config and without a scan of
\* the tree
C6_Memoized ==
    /\ \A f \in forms : f.initialized
    /\ (ret.op = "get_form" /\ ret.err = NoErr)
       => (ret.val \in forms /\ ret.walks > 0)
    /\ ret.op = "get_fields"
       => /\ ret.self \in forms
          /\ ret.err = NoErr
          /\ ret.val = ret.self.fields
          /\ ret.lookups = 0 /\ ret.walks = 0
    /\ ret.op = "get_field"
       => /\ ret.self \in forms
          /\ ret.lookups = 0 /\ ret.walks = 0
          /\ IF ret.name \in DOMAIN ret.self.fields
             THEN ret.err = NoErr /\ ret.val = ret.self.fields[ret.name]
             ELSE ret.err = FieldNotFound

\* get_fields was called with a snippet as root on a Form whose registry
\* has fields that are not below that snippet
C6_Witness ==
    /\ ret.op = "get_fields"
    /\ ret.id # 0
    /\ tree[ret.id].tag = "snippet"
    /\ ret.lookups = 0
    /\ \E n \in DOMAIN ret.val :
          \A j \in FieldsUnder(ret.id) :
             Resolve("entity", tree[j].ref) # ret.val[n].entity

RECURSIVE ExpectedPages(_, _)
RECURSIVE ExpectedPagesIn(_, _, _)

\* the pages collected for the includes incs[i..]
ExpectedPagesIn(incs, i, fuel) ==
    IF i > Len(incs) THEN <<>>
    ELSE ExpectedPages(Resolve("snippet", tree[incs[i]].ref), fuel)
         \o ExpectedPagesIn(incs, i + 1, fuel)

\* the page elements below root in document order, then for each include
\* below root, in document order, the pages collected for its snippet
ExpectedPages(root, fuel) ==
    IF fuel = 0 \/ root <= 0 THEN <<>>
    ELSE Ordered(PagesUnder(root))
         \o ExpectedPagesIn(Ordered(IncludesUnder(root)), 1, fuel - 1)

RECURSIVE Paths(_, _, _)
RECURSIVE PathsIn(_, _, _)

\* number of ways page p is reached through the includes of the set incs
PathsIn(incs, p, fuel) ==
    IF incs = {} THEN 0
    ELSE LET j == CHOOSE x \in incs : TRUE IN
         Paths(Resolve("snippet", tree[j].ref), p, fuel)
         + PathsIn(incs \ {j}, p, fuel)

\* number of ways page p is reached from root: once if it is below root,
\* and once for each way it is reached from an included snippet
Paths(root, p, fuel) ==
    IF fuel = 0 \/ root <= 0 THEN 0
    ELSE (IF p \in PagesUnder(root) THEN 1 ELSE 0)
         + PathsIn(IncludesUnder(root), p, fuel - 1)

Occurrences(seq, p) == Cardinality({i \in 1..Len(seq) : seq[i] = p})

\* the element a call of get_pages or get_fields starts from
RootOf(call) == IF call.id = 0 THEN call.self.tree ELSE call.id

\* C8: when get_pages(root) was called and every include reachable from
\* root names one snippet, the call returned the pages below root in
\* document order followed by the pages of the included snippets, include
\* by include in document order, each page as often as there are ways to
\* reach it
C8_Pages ==
    (ret.op = "get_pages" /\ Sound(RootOf(ret)))
    => /\ ret.err = NoErr
       /\ ret.val = ExpectedPages(RootOf(ret), Len(tree))
       /\ \A p \in 1..Len(tree) :
             Occurrences(ret.val, p) = Paths(RootOf(ret), p, Len(tree))

\* a page reached through two includes was returned twice, after a page
\* found directly below the root
C8_Witness ==
    /\ ret.op = "get_pages"
    /\ ret.err = NoErr
    /\ PagesUnder(RootOf(ret)) # {}
    /\ \E p \in 1..Len(tree) :
          /\ Occurrences(ret.val, p) = 2
          /\ p \notin PagesUnder(RootOf(ret))

\* C10: no step changes the tree or a Form that exists, and in every Form
\* that is not readonly, whether built before or after a readonly one, the
\* readonly of each Field is the one of its entity
C10_Frame ==
    [][/\ tree' = tree
       /\ forms \subseteq forms'
       /\ \A f \in forms' : \A n \in DOMAIN f.fields :
             ~f.readonly =>
                f.fields[n].readonly =
                   (tree'[f.fields[n].entity].readonly = "true")]_vars

\* a readonly Form and one that is not share an entity; the Field is
\* readonly in the first and not in the second
C10_Witness ==
    \E f \in forms : \E g \in forms : \E n \in DOMAIN f.fields :
        /\ f.readonly /\ ~g.readonly
        /\ n \in DOMAIN g.fields
        /\ f.fields[n].entity = g.fields[n].entity
        /\ f.fields[n].readonly /\ ~g.fields[n].readonly

(* ---------------------------------------------------------------------- *)
(* References to elements that do not exist, and cyclic references         *)
(* ---------------------------------------------------------------------- *)

\* C7: when get_form was called for a form from which a field with a
\* non-empty ref names no entity, or an include names no snippet, the
\* call failed, and it failed at the first lookup that found nothing;
\* when get_pages was called on a root from which an include names no
\* snippet, the call failed
C7_MissingIsFatal ==
    /\ (/\ ret.op = "get_form"
        /\ Resolve("form", ret.id) > 0
        /\ \/ MissingEntity(Resolve("form", ret.id))
           \/ MissingSnippet(Resolve("form", ret.id)))
       => (ret.err # NoErr /\ ret.misses <= 1)
    /\ (ret.op = "get_pages" /\ MissingSnippet(RootOf(ret)))
       => ret.err # NoErr

\* C9: when a call followed a ref chain, or expanded snippets, that come
\* back to an identifier already visited, it failed with an error of its
\* own, not by returning and not by exhausting the stack
C9_CycleDetected ==
    /\ (ret.op = "get_element" /\ Hops(ret.name, ret.id) = -1)
       => ret.err \notin {NoErr, RecursionError}
    /\ (/\ ret.op = "get_form"
        /\ \/ Hops("form", ret.id) = -1
           \/ /\ Resolve("form", ret.id) > 0
              /\ IncludeCycle(Resolve("form", ret.id)))
       => ret.err \notin {NoErr, RecursionError}
    /\ (ret.op = "get_pages" /\ IncludeCycle(RootOf(ret)))
       => ret.err \notin {NoErr, RecursionError}

====
